---- MODULE Spec2Model ----
(***************************************************************************)
(* Model of the weather proxy: the in-memory cache of                      *)
(* weather_server_free.py, the two orchestrating handlers get_weather and  *)
(* get_forecast with their stale-on-error fallback, and the HTTP entry     *)
(* points of weather_api_http.py that call them.                           *)
(*                                                                         *)
(* The handlers are asyncio coroutines on one event loop: a handler runs   *)
(* without interruption from its start to the await of the HTTP client,    *)
(* and from the provider's answer to its return.  Each of these two        *)
(* stretches is one action.                                                *)
(*                                                                         *)
(* The provider either answers with provider-shaped data, which the        *)
(* normalizers accept, or the request fails (a non-success status, a       *)
(* connection error or the 10 s timeout).                                  *)
(*                                                                         *)
(* The cache and the handlers see a payload as its identity and its two    *)
(* flags.  The normalizers' computation of the payload's fields is         *)
(* modelled apart (SpecNormalize), run on answers of the provider.         *)
(***************************************************************************)
EXTENDS Integers, FiniteSets, Sequences, TLC

VARIABLES server, cache, stored, now, inflight, started, last, apiKey,
          norm_in, norm_out

vars == <<server, cache, stored, now, inflight, started, last, apiKey,
          norm_in, norm_out>>

----------------------------------------------------------------------------
(* Bounds of the exploration *)

\* calls started in one behaviour of the MCP server
MaxCalls == 3
\* calls started in one behaviour of the HTTP server
MaxHttpCalls == 2
\* calls started in one behaviour of the MCP server asked for many keys
MaxKeyCalls == 2
\* clock advances in one behaviour
MaxTicks == 2

(* Program constants *)

\* CACHE_TTL = int(os.getenv("CACHE_TTL", "600"))
CACHE_TTL == 600

\* The clock advances by half a TTL: ages 0, TTL/2 (fresh), TTL (just
\* expired) and beyond are all met.
TickStep == CACHE_TTL \div 2

----------------------------------------------------------------------------
(* Inputs *)

\* the callers' coordinates: a valid pair and a latitude out of range for the
\* tools; for the routes also a longitude out of range
McpCoordInputs == {<<0, 0>>, <<91, 0>>}
HttpCoordInputs == {<<0, 0>>, <<91, 0>>, <<0, -181>>}
\* for the exploration of the cache keys: pairs that differ in the latitude
\* only, in the longitude only, and pairs whose digits run together
KeyCoordInputs == {<<1, 1>>, <<11, 1>>, <<1, 11>>}

\* the callers' day counts: both invalid neighbours and the default
DaysInputs == {0, 5, 6}
\* for the exploration of the cache keys: two valid day counts
KeyDaysInputs == {0, 3, 5}

\* the provider's raw answers, identified by number
Payloads == {1, 2}

\* the tools of the MCP server (weather_server_free.py run as a program) and
\* the routes of the HTTP server (weather_api_http.py run as a program); each
\* program is a process with its own cache
McpEntries == {"get_weather", "get_forecast"}
HttpEntries == {"get_weather_post", "get_weather_get", "get_forecast_post",
                "get_forecast_get", "get_forecast_get_days"}
WeatherEntries == {"get_weather", "get_weather_post", "get_weather_get"}

----------------------------------------------------------------------------
(* Values *)

\* A normalized payload.  val stands for all the payload's fields other than
\* the two flags (0: there is no payload); stale = FALSE is the dict without
\* a "stale" key, the code never writes stale = False.
NoData == [val |-> 0, cached |-> FALSE, stale |-> FALSE]

\* no cache entry
NoEntry == [data |-> NoData, timestamp |-> -1]

EmptyCache == [k \in {} |-> NoEntry]

NoKey == "none"

EntryOf(c, key) == IF key \in DOMAIN c THEN c[key] ELSE NoEntry

\* history of a store: the payload and time stored and the arguments of the
\* call that stored them
NoStore == [data |-> NoData, timestamp |-> -1, by |-> <<0, 0, "none", 0>>]

StoreOf(s, key) == IF key \in DOMAIN s THEN s[key] ELSE NoStore

\* no normalizer is run, no normalizer has returned
NoInput == [fn |-> "none"]

NoOutput == [fn |-> "none"]

----------------------------------------------------------------------------
(* The cache: weather_server_free.py *)

get_cache_key_no_endpoint(lat, lon, endpoint) ==
    ToString(lat) \o "|" \o ToString(lon)

\* return f"{lat}|{lon}|{endpoint}"
get_cache_key(lat, lon, endpoint) ==
    ToString(lat) \o "|" \o ToString(lon) \o "|" \o endpoint

\* the stored payload while the entry is younger than CACHE_TTL, else None;
\* the cache itself is not touched
get_from_cache(c, key, t) ==
    IF key \in DOMAIN c /\ t - c[key].timestamp < CACHE_TTL
    THEN c[key].data
    ELSE NoData

set_cache_rebind(c, key, data, t) ==
    [k \in {key} |-> [data |-> data, timestamp |-> t]]

set_cache_skip(c, key, data, t) == c

set_cache_keep_time(c, key, data, t) ==
    [k \in DOMAIN c \cup {key} |->
        IF k = key
        THEN [data |-> data,
              timestamp |-> IF key \in DOMAIN c THEN c[key].timestamp ELSE t]
        ELSE c[k]]

set_cache_keep_first(c, key, data, t) ==
    IF key \in DOMAIN c
    THEN c
    ELSE [k \in DOMAIN c \cup {key} |->
             IF k = key THEN [data |-> data, timestamp |-> t] ELSE c[k]]

\* cache[key] = {"data": data, "timestamp": time.time()}
set_cache(c, key, data, t) ==
    [k \in DOMAIN c \cup {key} |->
        IF k = key THEN [data |-> data, timestamp |-> t] ELSE c[k]]

----------------------------------------------------------------------------
(* The upstream client: the credential check made before the request *)

fetch_current_weather_unchecked(key_configured) == FALSE

\* if not OPENWEATHER_API_KEY: raise ValueError
fetch_current_weather_raises(key_configured) == ~key_configured

fetch_forecast_data_raises(key_configured) == ~key_configured

----------------------------------------------------------------------------
(* Normalization, as far as the flags and the payload's identity go: val   *)
(* names the field values computed from the provider's answer.  An answer  *)
(* of the provider never carries the "provider" marker, so the branch for  *)
(* already normalized data is not taken.                                   *)

normalize_current_weather(raw, is_cached) ==
    [val |-> raw, cached |-> is_cached, stale |-> FALSE]

normalize_forecast(raw, days, is_cached) ==
    [val |-> raw, cached |-> is_cached, stale |-> FALSE]

----------------------------------------------------------------------------
(* The handlers' branches: weather_server_free.py *)

\* result = cached_data.copy(); result["cached"] = True
get_weather_hit(data) == [data EXCEPT !.cached = TRUE]

get_forecast_hit(data) == [data EXCEPT !.cached = TRUE]

\* the try body after the await: normalize, set_cache, return normalized
get_weather_store(c, key, raw, t) ==
    [cache |-> set_cache(c, key, normalize_current_weather(raw, FALSE), t),
     resp |-> normalize_current_weather(raw, FALSE)]

get_forecast_store(c, key, raw, days, t) ==
    [cache |-> set_cache(c, key, normalize_forecast(raw, days, FALSE), t),
     resp |-> normalize_forecast(raw, days, FALSE)]

\* stale_data["cached"] = True; stale_data["stale"] = True
MarkStale(data) == [data EXCEPT !.cached = TRUE, !.stale = TRUE]

get_weather_fallback_unmarked(c, key) ==
    IF key \in DOMAIN c
    THEN [cache |-> [c EXCEPT ![key].data.cached = TRUE],
          returned |-> TRUE,
          resp |-> [c[key].data EXCEPT !.cached = TRUE]]
    ELSE [cache |-> c, returned |-> FALSE, resp |-> NoData]

get_weather_fallback_swallow(c, key) ==
    IF key \in DOMAIN c
    THEN [cache |-> [c EXCEPT ![key].data = MarkStale(c[key].data)],
          returned |-> TRUE,
          resp |-> MarkStale(c[key].data)]
    ELSE [cache |-> c, returned |-> TRUE, resp |-> NoData]

get_weather_fallback_refresh(c, key) ==
    IF key \in DOMAIN c
    THEN [cache |-> [c EXCEPT ![key] =
                        [data |-> MarkStale(c[key].data),
                         timestamp |-> c[key].timestamp + CACHE_TTL]],
          returned |-> TRUE,
          resp |-> MarkStale(c[key].data)]
    ELSE [cache |-> c, returned |-> FALSE, resp |-> NoData]

\* The except clause.  stale_data is the dict held by the cache entry, not a
\* copy of it: setting the two flags on it sets them in the entry.  With no
\* entry for the key the exception is raised again (returned = FALSE).
get_weather_fallback(c, key) ==
    IF key \in DOMAIN c
    THEN [cache |-> [c EXCEPT ![key].data = MarkStale(c[key].data)],
          returned |-> TRUE,
          resp |-> MarkStale(c[key].data)]
    ELSE [cache |-> c, returned |-> FALSE, resp |-> NoData]

get_forecast_fallback(c, key) ==
    IF key \in DOMAIN c
    THEN [cache |-> [c EXCEPT ![key].data = MarkStale(c[key].data)],
          returned |-> TRUE,
          resp |-> MarkStale(c[key].data)]
    ELSE [cache |-> c, returned |-> FALSE, resp |-> NoData]

\* if days < 1 or days > 5: raise ValueError
get_forecast_rejects(days) == days < 1 \/ days > 5

----------------------------------------------------------------------------
(* The HTTP entry points: weather_api_http.py *)

\* class WeatherRequest: lat ge=-90 le=90, lon ge=-180 le=180
WeatherRequest(lat, lon) ==
    lat >= -90 /\ lat <= 90 /\ lon >= -180 /\ lon <= 180

\* class ForecastRequest: the same, and days ge=1 le=5
ForecastRequest(lat, lon, days) ==
    lat >= -90 /\ lat <= 90 /\ lon >= -180 /\ lon <= 180 /\ days >= 1 /\ days <= 5

get_forecast_get_days_rejects_loose(days) == days < 0 \/ days > 5

\* if days < 1 or days > 5: raise HTTPException(status_code=400)
get_forecast_get_days_rejects(days) == days < 1 \/ days > 5

\* get_forecast_get passes days=5; the weather handlers take no day count
DaysFor(entry) ==
    IF entry \in {"get_forecast", "get_forecast_post", "get_forecast_get_days"}
    THEN IF server = "mcp_keys" THEN KeyDaysInputs ELSE DaysInputs
    ELSE IF entry = "get_forecast_get" THEN {5} ELSE {0}

KindOf(entry) == IF entry \in WeatherEntries THEN "current" ELSE "forecast"

\* the status the HTTP layer answers before the handler is called, 0 if the
\* handler is called
GateCode(entry, lat, lon, days) ==
    IF entry = "get_weather_post" /\ ~WeatherRequest(lat, lon) THEN 422
    ELSE IF entry = "get_forecast_post" /\ ~ForecastRequest(lat, lon, days) THEN 422
    ELSE IF entry = "get_forecast_get_days" /\ get_forecast_get_days_rejects(days)
    THEN 400
    ELSE 0

\* the handler's own argument check: only get_forecast has one
HandlerRejects(entry, days) ==
    KindOf(entry) = "forecast" /\ get_forecast_rejects(days)

Rejected(entry, lat, lon, days) ==
    GateCode(entry, lat, lon, days) # 0 \/ HandlerRejects(entry, days)

\* an HTTP wrapper turns the handler's return into 200 and any exception of
\* the handler into 500; a tool call has no status (0)
Http(entry, code) == IF entry \in HttpEntries THEN code ELSE 0

Endpoint(entry, days) ==
    IF KindOf(entry) = "current" THEN "current" ELSE "forecast_" \o ToString(days)

KeyOf(entry, lat, lon, days) == get_cache_key(lat, lon, Endpoint(entry, days))

Lookup(entry, c, key, t) ==
    IF KindOf(entry) = "current"
    THEN get_weather_hit(get_from_cache(c, key, t))
    ELSE get_forecast_hit(get_from_cache(c, key, t))

Misses(c, key, t) == get_from_cache(c, key, t) = NoData

FetchRaises(kind, key_configured) ==
    IF kind = "current"
    THEN fetch_current_weather_raises(key_configured)
    ELSE fetch_forecast_data_raises(key_configured)

Fallback(kind, c, key) ==
    IF kind = "current" THEN get_weather_fallback(c, key)
    ELSE get_forecast_fallback(c, key)

Store(kind, c, key, raw, days, t) ==
    IF kind = "current" THEN get_weather_store(c, key, raw, t)
    ELSE get_forecast_store(c, key, raw, days, t)

----------------------------------------------------------------------------
(* Normalization, field by field: weather_server_free.py                   *)
(*                                                                         *)
(* A dict of the provider is a record; where the code asks whether a key   *)
(* is there, the record has the set `keys` of the keys it has and a        *)
(* sub-dict is a function on the keys it has.  Temperatures, humidities    *)
(* and precipitation amounts are whole numbers of the provider's units; a  *)
(* quotient that need not be whole is kept as <<numerator, denominator>>.  *)
(* dt counts hours of local time.  The result's "timestamp" field, the     *)
(* time of the call, is left out.                                          *)

Min2(a, b) == IF a < b THEN a ELSE b

RECURSIVE SumSeq(_)
SumSeq(s) == IF s = <<>> THEN 0 ELSE Head(s) + SumSeq(Tail(s))

RECURSIVE MinSeq(_)
MinSeq(s) == IF Len(s) = 1 THEN s[1] ELSE Min2(s[1], MinSeq(Tail(s)))

RECURSIVE MaxSeq(_)
MaxSeq(s) ==
    IF Len(s) = 1 THEN s[1]
    ELSE IF s[1] > MaxSeq(Tail(s)) THEN s[1] ELSE MaxSeq(Tail(s))

\* int(x / n) for n > 0: the quotient cut towards zero
IntQuotient(x, n) == IF x >= 0 THEN x \div n ELSE 0 - ((0 - x) \div n)

\* datetime.fromtimestamp(item["dt"]).date()
DateOf(dt) == dt \div 24

ForecastItems_half(data, days) ==
    IF "list" \in data.keys
    THEN SubSeq(data.list, 1, Min2(Len(data.list), days * 4))
    ELSE <<>>

\* data.get("list", [])[:days * 8]
ForecastItems(data, days) ==
    IF "list" \in data.keys
    THEN SubSeq(data.list, 1, Min2(Len(data.list), days * 8))
    ELSE <<>>

\* daily_data[date] = {"temps": [], "humidity": [], "rainfall": [], ...}
NewDay(date) ==
    [date |-> date, temps |-> <<>>, humidity |-> <<>>, rainfall |-> <<>>,
     descriptions |-> <<>>]

\* rain = 0.0; if "rain" in item and "3h" in item["rain"]: rain = item["rain"]["3h"]
ItemRain(item) ==
    IF "rain" \in item.keys /\ "3h" \in DOMAIN item.rain
    THEN item.rain["3h"]
    ELSE 0

\* the place of a date in the dict, which keeps its keys in the order of
\* their insertion; 0 if the date is not a key
DayIndex(daily, date) ==
    IF \E i \in 1..Len(daily) : daily[i].date = date
    THEN CHOOSE i \in 1..Len(daily) : daily[i].date = date
    ELSE 0

\* the body of the loop over the items; item.weather is the list under
\* "weather", empty when the key is missing
AddItem(daily, item) ==
    LET date == DateOf(item.dt)
        d0 == IF DayIndex(daily, date) = 0
              THEN Append(daily, NewDay(date))
              ELSE daily
        i == DayIndex(d0, date)
    IN [d0 EXCEPT ![i] =
           [@ EXCEPT !.temps = Append(@, item.main.temp),
                     !.humidity = Append(@, item.main.humidity),
                     !.rainfall = Append(@, ItemRain(item)),
                     !.descriptions = IF item.weather # <<>>
                                      THEN Append(@, item.weather[1])
                                      ELSE @]]

\* the dict daily_data after the loop over items, as the list of its values
RECURSIVE daily_data(_)
daily_data(items) ==
    IF items = <<>> THEN <<>>
    ELSE AddItem(daily_data(SubSeq(items, 1, Len(items) - 1)), items[Len(items)])

ForecastDay_last_description(day) ==
    [date |-> day.date,
     temp_min |-> MinSeq(day.temps),
     temp_max |-> MaxSeq(day.temps),
     humidity |-> IntQuotient(SumSeq(day.humidity), Len(day.humidity)),
     rainfall |-> SumSeq(day.rainfall),
     description |-> IF day.descriptions # <<>>
                     THEN day.descriptions[Len(day.descriptions)]
                     ELSE "unknown"]

\* forecast_list.append({"date": date, "temp_min": min(...), ...})
ForecastDay(day) ==
    [date |-> day.date,
     temp_min |-> MinSeq(day.temps),
     temp_max |-> MaxSeq(day.temps),
     humidity |-> IntQuotient(SumSeq(day.humidity), Len(day.humidity)),
     rainfall |-> SumSeq(day.rainfall),
     description |-> IF day.descriptions # <<>>
                     THEN day.descriptions[1]
                     ELSE "unknown"]

ReturnedDays_all(daily, days) == daily

\* list(daily_data.items())[:days]
ReturnedDays(daily, days) == SubSeq(daily, 1, Min2(Len(daily), days))

forecast_list(data, days) ==
    LET kept == ReturnedDays(daily_data(ForecastItems(data, days)), days)
    IN [i \in 1..Len(kept) |-> ForecastDay(kept[i])]

\* normalize_forecast with the fields of its result
normalize_forecast_fields(data, days, is_cached) ==
    [forecast |-> forecast_list(data, days),
     provider |-> "openweather",
     cached |-> is_cached]

rainfall_3h_first(data) ==
    IF "rain" \in data.keys /\ "3h" \in DOMAIN data.rain
    THEN <<data.rain["3h"], 3>>
    ELSE IF "rain" \in data.keys /\ "1h" \in DOMAIN data.rain
    THEN <<data.rain["1h"], 1>>
    ELSE <<0, 1>>

\* rainfall = 0.0; if ... "1h" ...: rain["1h"]; elif ... "3h" ...: rain["3h"] / 3
rainfall(data) ==
    IF "rain" \in data.keys /\ "1h" \in DOMAIN data.rain
    THEN <<data.rain["1h"], 1>>
    ELSE IF "rain" \in data.keys /\ "3h" \in DOMAIN data.rain
    THEN <<data.rain["3h"], 3>>
    ELSE <<0, 1>>

\* normalize_current_weather with the rainfall of its result: data that
\* carries provider = "openweather" is copied, other data is read as the
\* provider's
normalize_current_weather_fields(data, is_cached) ==
    IF "provider" \in data.keys /\ data.provider = "openweather"
    THEN [rainfall |-> data.rainfall, provider |-> data.provider,
          cached |-> is_cached]
    ELSE [rainfall |-> rainfall(data), provider |-> "openweather",
          cached |-> is_cached]

----------------------------------------------------------------------------
(* State *)

\* server   which program the process runs and which callers it has: "mcp",
\*          "http", "mcp_keys" (the MCP server asked for many keys) or
\*          "mcp_live" (the MCP server with one place); "none" when only
\*          the normalizers are run
\* cache    the module's cache dict: key -> [data, timestamp]
\* stored   history: for each key, the payload and time of its latest
\*          set_cache, as they were when stored, and the arguments of the
\*          call that stored them
\* now      time.time()
\* inflight the calls awaiting the provider's answer
\* started  the number of calls started
\* last     history: the call that ended in the step just taken, with what it
\*          did; NoCall when no call ended in that step
\* apiKey   whether OPENWEATHER_API_KEY is set; read once at import
\* norm_in  the provider's answer handed to a normalizer run on its own
\* norm_out what the normalizer returned

Entries == IF server = "http" THEN HttpEntries ELSE McpEntries

CoordInputs ==
    CASE server = "http" -> HttpCoordInputs
      [] server = "mcp_keys" -> KeyCoordInputs
      [] server = "mcp_live" -> {<<0, 0>>}
      [] OTHER -> McpCoordInputs

CallBound ==
    CASE server = "http" -> MaxHttpCalls
      [] server = "mcp_keys" -> MaxKeyCalls
      [] OTHER -> MaxCalls

\* the state of the key's entry at time t: absent, expired (as old as
\* CACHE_TTL or older) or fresh
Seen(c, key, t) ==
    IF key \notin DOMAIN c THEN "absent"
    ELSE IF t - c[key].timestamp >= CACHE_TTL THEN "expired" ELSE "fresh"

\* what a call is known by from its start; seen is the state of its key's
\* entry when it started ("none" for a call refused before it has a key),
\* attempts the number of requests it has sent to the provider
Request(id, entry, lat, lon, days, seen) ==
    [id |-> id, entry |-> entry, lat |-> lat, lon |-> lon, days |-> days,
     kind |-> KindOf(entry),
     key |-> KeyOf(entry, lat, lon, days),
     seen |-> seen, attempts |-> 0]

\* the requests a handler has sent to the provider while it awaits the answer
\* to the n-th: await client.get(...) is executed once per call of a fetch
Awaiting(req, n) == [req EXCEPT !.attempts = n]

AwaitsAgainOnce(req) ==
    IF req.attempts < 2 THEN {[req EXCEPT !.attempts = 2]} ELSE {}

\* The except clause returns the stale payload or raises: in both cases the
\* handler is over, it sends nothing to the provider again.
AwaitsAgain(req) == {}

\* what a call did, added to its request when it ends:
\*   path         reject | hit | fresh | fallback | raise
\*   outcome      validation_error | ok | upstream_error | config_error
\*   http         the HTTP status, 0 for a tool call
\*   resp         the payload returned, NoData with none
\*   lookups      calls of get_from_cache
\*   fetches      calls of fetch_current_weather / fetch_forecast_data
\*   networkCalls requests sent to the provider
\*   failure      none | config | http_status | request_error
\*   raw          the provider's answer, 0 with none
\*   endTime      the time of the call's last step
\*   entryBefore, storedBefore, entryAfter
\*                the key's cache entry and latest store before the call's
\*                last step, and the entry after it
\*   cacheChanged whether the call's last step changed the cache
Ended(req, path, outcome, http, resp, lookups, fetches, networkCalls, failure, raw, newCache) ==
    req @@
    [path |-> path, outcome |-> outcome, http |-> http, resp |-> resp,
     lookups |-> lookups, fetches |-> fetches, networkCalls |-> networkCalls,
     failure |-> failure, raw |-> raw,
     endTime |-> now,
     entryBefore |-> EntryOf(cache, req.key),
     storedBefore |-> StoreOf(stored, req.key),
     entryAfter |-> EntryOf(newCache, req.key),
     cacheChanged |-> newCache # cache]

NoCall ==
    [id |-> 0, entry |-> "none", lat |-> 0, lon |-> 0, days |-> 0,
     kind |-> "none", key |-> NoKey, seen |-> "none", attempts |-> 0,
     path |-> "none", outcome |-> "none", http |-> 0, resp |-> NoData,
     lookups |-> 0, fetches |-> 0, networkCalls |-> 0,
     failure |-> "none", raw |-> 0, endTime |-> 0,
     entryBefore |-> NoEntry, storedBefore |-> NoStore, entryAfter |-> NoEntry,
     cacheChanged |-> FALSE]

InitProcess ==
    /\ cache = EmptyCache
    /\ stored = EmptyCache
    /\ now = 0
    /\ inflight = {}
    /\ started = 0
    /\ last = NoCall
    /\ apiKey \in BOOLEAN
    /\ norm_in = NoInput
    /\ norm_out = NoOutput

\* the MCP server
Init == server = "mcp" /\ InitProcess

\* the HTTP server
InitHttp == server = "http" /\ InitProcess

\* the MCP server, asked for many keys by few calls
InitKeys == server = "mcp_keys" /\ InitProcess

\* the MCP server, asked for one place
InitLive == server = "mcp_live" /\ InitProcess

----------------------------------------------------------------------------
(* Actions *)

\* time passes
Tick ==
    /\ now < MaxTicks * TickStep
    /\ now' = now + TickStep
    /\ last' = NoCall
    /\ UNCHANGED <<norm_in, norm_out, server, cache, stored, inflight, started, apiKey>>

\* A call refused for its arguments: by the request model (422), by
\* get_forecast_get_days (400) or by get_forecast's ValueError, which an HTTP
\* wrapper answers with 500.
Reject(entry, lat, lon, days) ==
    /\ started < CallBound
    /\ Rejected(entry, lat, lon, days)
    /\ started' = started + 1
    /\ last' = Ended(Request(started + 1, entry, lat, lon, days, "none"),
                     "reject", "validation_error",
                     IF GateCode(entry, lat, lon, days) # 0
                     THEN GateCode(entry, lat, lon, days)
                     ELSE Http(entry, 500),
                     NoData, 0, 0, 0, "none", 0, cache)
    /\ UNCHANGED <<norm_in, norm_out, server, cache, stored, now, inflight, apiKey>>

\* A call that finds a fresh entry and returns a copy of it.
CacheHit(entry, lat, lon, days) ==
    LET key == KeyOf(entry, lat, lon, days)
        req == Request(started + 1, entry, lat, lon, days, Seen(cache, key, now))
    IN
    /\ started < CallBound
    /\ ~Rejected(entry, lat, lon, days)
    /\ ~Misses(cache, key, now)
    /\ started' = started + 1
    /\ last' = Ended(req, "hit", "ok", Http(entry, 200),
                     Lookup(entry, cache, key, now),
                     1, 0, 0, "none", 0, cache)
    /\ UNCHANGED <<norm_in, norm_out, server, cache, stored, now, inflight, apiKey>>

\* A call that misses and whose fetch raises for the missing credential
\* before any await: the except clause runs at once.
ConfigFailure(entry, lat, lon, days) ==
    LET key == KeyOf(entry, lat, lon, days)
        req == Request(started + 1, entry, lat, lon, days, Seen(cache, key, now))
        f == Fallback(req.kind, cache, key)
    IN
    /\ started < CallBound
    /\ ~Rejected(entry, lat, lon, days)
    /\ Misses(cache, key, now)
    /\ FetchRaises(req.kind, apiKey)
    /\ started' = started + 1
    /\ cache' = f.cache
    /\ last' = Ended(req,
                     IF f.returned THEN "fallback" ELSE "raise",
                     IF f.returned THEN "ok" ELSE "config_error",
                     Http(entry, IF f.returned THEN 200 ELSE 500),
                     f.resp, 1, 1, 0, "config", 0, f.cache)
    /\ UNCHANGED <<norm_in, norm_out, server, stored, now, inflight, apiKey>>

\* A call that misses and sends its request to the provider.
BeginFetch(entry, lat, lon, days) ==
    LET key == KeyOf(entry, lat, lon, days)
        req == Request(started + 1, entry, lat, lon, days, Seen(cache, key, now))
    IN
    /\ started < CallBound
    /\ ~Rejected(entry, lat, lon, days)
    /\ Misses(cache, key, now)
    /\ ~FetchRaises(req.kind, apiKey)
    /\ started' = started + 1
    /\ inflight' = inflight \cup {Awaiting(req, 1)}
    /\ last' = NoCall
    /\ UNCHANGED <<norm_in, norm_out, server, cache, stored, now, apiKey>>

\* The provider answers: normalize, store, return.
UpstreamSuccess(req, raw) ==
    LET s == Store(req.kind, cache, req.key, raw, req.days, now) IN
    /\ req \in inflight
    /\ inflight' = inflight \ {req}
    /\ cache' = s.cache
    /\ stored' = [k \in DOMAIN stored \cup {req.key} |->
                     IF k = req.key
                     THEN [data |-> s.resp, timestamp |-> now,
                           by |-> <<req.lat, req.lon, req.kind, req.days>>]
                     ELSE stored[k]]
    /\ last' = Ended(req, "fresh", "ok", Http(req.entry, 200), s.resp,
                     1, 1, req.attempts, "none", raw, s.cache)
    /\ UNCHANGED <<norm_in, norm_out, server, now, started, apiKey>>

\* The request fails (a non-success status, or a connection error or
\* timeout): the except clause.
UpstreamFailure(req, failure) ==
    LET f == Fallback(req.kind, cache, req.key) IN
    /\ req \in inflight
    /\ inflight' = (inflight \ {req}) \cup AwaitsAgain(req)
    /\ cache' = f.cache
    /\ last' = Ended(req,
                     IF f.returned THEN "fallback" ELSE "raise",
                     IF f.returned THEN "ok" ELSE "upstream_error",
                     Http(req.entry, IF f.returned THEN 200 ELSE 500),
                     f.resp, 1, 1, req.attempts, failure, 0, f.cache)
    /\ UNCHANGED <<norm_in, norm_out, server, stored, now, started, apiKey>>

Call(entry, lat, lon, days) ==
    \/ Reject(entry, lat, lon, days)
    \/ CacheHit(entry, lat, lon, days)
    \/ ConfigFailure(entry, lat, lon, days)
    \/ BeginFetch(entry, lat, lon, days)

Next ==
    \/ Tick
    \/ \E entry \in Entries, c \in CoordInputs :
         \E days \in DaysFor(entry) : Call(entry, c[1], c[2], days)
    \/ \E req \in inflight, raw \in Payloads : UpstreamSuccess(req, raw)
    \/ \E req \in inflight, failure \in {"http_status", "request_error"} :
         UpstreamFailure(req, failure)

Spec == Init /\ [][Next]_vars

SpecHttp == InitHttp /\ [][Next]_vars

SpecKeys == InitKeys /\ [][Next]_vars

\* the call with this id is awaiting the provider's answer
InFlight(id) == \E req \in inflight : req.id = id

\* the call's request to the provider ends: with an answer, a failure status,
\* a connection error, or the client's timeout (httpx.AsyncClient(timeout=10.0))
Answer(id) ==
    \E req \in inflight :
        /\ req.id = id
        /\ \/ \E raw \in Payloads : UpstreamSuccess(req, raw)
           \/ \E failure \in {"http_status", "request_error"} :
                  UpstreamFailure(req, failure)

\* The MCP server when every request to the provider ends and the event loop
\* resumes the coroutine that awaits it.
SpecLive ==
    InitLive /\ [][Next]_vars /\ \A id \in 1..MaxCalls : WF_vars(Answer(id))

----------------------------------------------------------------------------
(* The normalizers run on their own, on answers of the provider *)

\* the items of a forecast answer
MaxSamples == 40

\* the texts of the provider's weather conditions
Descriptions == <<"clear sky", "light rain", "few clouds">>

\* The i-th value of each field of an item, in three series: p = 1 varies
\* every field and leaves keys out in turn, p = 2 has no "rain" and no
\* "weather" at all, p = 3 has both in every item.
SampleTemp(i, p) ==
    CASE p = 1 -> ((i * 7) % 11) - 3
      [] p = 2 -> 5
      [] OTHER -> 0 - i

SampleHumidity(i, p) ==
    CASE p = 1 -> 40 + ((i * 13) % 7)
      [] p = 2 -> 55
      [] OTHER -> 100 - i

SampleKeys(i, p) ==
    CASE p = 1 -> IF i % 3 = 0 THEN {} ELSE {"rain"}
      [] p = 2 -> {}
      [] OTHER -> {"rain"}

SampleRain(i, p) ==
    CASE p = 1 -> IF i % 3 = 1
                  THEN [k \in {"3h"} |-> i % 4]
                  ELSE [k \in {"1h"} |-> 2]
      [] p = 2 -> [k \in {} |-> 0]
      [] OTHER -> [k \in {"1h", "3h"} |-> 1]

SampleWeather(i, p) ==
    CASE p = 1 -> IF i % 4 = 1 THEN <<>> ELSE <<Descriptions[(i % 3) + 1]>>
      [] p = 2 -> <<>>
      [] OTHER -> <<"mist", "clear sky">>

\* item i of an answer whose first item is at hour `start` and whose items
\* are `step` hours apart
Sample(i, start, step, p) ==
    [dt |-> start + step * (i - 1),
     main |-> [temp |-> SampleTemp(i, p), humidity |-> SampleHumidity(i, p)],
     keys |-> SampleKeys(i, p),
     rain |-> SampleRain(i, p),
     weather |-> SampleWeather(i, p)]

\* an answer of n items, in the order of time or against it
SampleList(n, start, step, p, order) ==
    [i \in 1..n |-> Sample(IF order = "asc" THEN i ELSE n + 1 - i, start, step, p)]

\* Forecast answers: up to MaxSamples items, the first at midnight or at
\* 15:00, 3 hours apart (8 a day) or 2 hours apart (12 a day); and an answer
\* without "list".  The day counts are those get_forecast lets through.
ForecastInputs ==
    {[fn |-> "forecast",
      data |-> [keys |-> {"list"}, list |-> SampleList(n, start, step, p, order)],
      days |-> days, cached |-> FALSE] :
        n \in 0..MaxSamples, start \in {0, 15}, step \in {3, 2},
        p \in 1..3, order \in {"asc", "desc"}, days \in 1..5}
    \cup
    {[fn |-> "forecast", data |-> [keys |-> {}, list |-> <<>>],
      days |-> days, cached |-> FALSE] : days \in 1..5}

RainDicts ==
    UNION {[dom -> {0, 2, 3}] : dom \in SUBSET {"1h", "3h"}}

\* Current-weather answers: with and without "rain", with each of the two
\* amounts present or not; and data that went through the normalizer before
CurrentInputs ==
    {[fn |-> "current",
      data |-> [keys |-> keys, rain |-> rain, provider |-> provider,
                rainfall |-> <<2, 1>>],
      days |-> 0, cached |-> is_cached] :
        keys \in SUBSET {"rain", "provider"}, rain \in RainDicts,
        provider \in {"openweather", "other"}, is_cached \in BOOLEAN}

InitNormalize ==
    /\ server = "none"
    /\ cache = EmptyCache
    /\ stored = EmptyCache
    /\ now = 0
    /\ inflight = {}
    /\ started = 0
    /\ last = NoCall
    /\ apiKey = TRUE
    /\ norm_in \in ForecastInputs \cup CurrentInputs
    /\ norm_out = NoOutput

RunNormalizeForecast ==
    /\ norm_in.fn = "forecast"
    /\ norm_out.fn = "none"
    /\ norm_out' = [fn |-> "forecast",
                    result |-> normalize_forecast_fields(norm_in.data, norm_in.days,
                                                         norm_in.cached)]
    /\ UNCHANGED <<norm_in, server, cache, stored, now, inflight, started, last,
                   apiKey>>

RunNormalizeCurrent ==
    /\ norm_in.fn = "current"
    /\ norm_out.fn = "none"
    /\ norm_out' = [fn |-> "current",
                    result |-> normalize_current_weather_fields(norm_in.data,
                                                                norm_in.cached)]
    /\ UNCHANGED <<norm_in, server, cache, stored, now, inflight, started, last,
                   apiKey>>

NextNormalize == RunNormalizeForecast \/ RunNormalizeCurrent

SpecNormalize == InitNormalize /\ [][NextNormalize]_vars

----------------------------------------------------------------------------
(* Properties *)

\* coordinates the interface accepts
CoordsInRange(lat, lon) == lat \in -90..90 /\ lon \in -180..180

\* arguments the interface accepts
ValidArgs(l) ==
    /\ CoordsInRange(l.lat, l.lon)
    /\ l.kind = "forecast" => l.days \in 1..5

\* a call ended in the step just taken
CallEnded == last.path # "none"

\* the call's fetch was answered by a failure of the provider
UpstreamFailed(l) == l.failure \in {"http_status", "request_error"}

\* the age of the key's entry when the call ended
AgeAtEnd(l) == l.endTime - l.entryBefore.timestamp

\* equal in every field other than the cached flag
SameButCached(d, e) == [d EXCEPT !.cached = TRUE] = [e EXCEPT !.cached = TRUE]

\* C1: a call that starts while the latest store for its key is younger than
\* CACHE_TTL makes no upstream call and returns cached = true with the stored
\* payload, equal to it in every field other than the cached flag.
C1_FreshHitReturnsStored ==
    (CallEnded /\ last.seen = "fresh") =>
        /\ last.path = "hit"
        /\ last.outcome = "ok"
        /\ last.networkCalls = 0
        /\ last.resp.cached
        /\ SameButCached(last.resp, last.storedBefore.data)

\* C2: a call whose fetch fails while the cache holds an expired entry for its
\* key (whatever its age) has made exactly one upstream attempt and returns
\* successfully the stored payload values with cached = true and stale = true.
C2_StaleFallback ==
    (CallEnded /\ last.failure # "none" /\ last.entryBefore # NoEntry
       /\ (last.seen = "expired" \/ AgeAtEnd(last) >= CACHE_TTL)) =>
        /\ last.path = "fallback"
        /\ last.outcome = "ok"
        /\ last.networkCalls = 1
        /\ last.resp.cached
        /\ last.resp.stale
        /\ last.resp.val = last.storedBefore.data.val
        /\ last.resp.val = last.entryBefore.data.val

C2_Witness ==
    /\ last.path = "fallback"
    /\ last.kind = "current"
    /\ last.seen = "expired"
    /\ UpstreamFailed(last)
    /\ AgeAtEnd(last) >= CACHE_TTL

\* C3 as stated: a call with valid arguments made when the cache holds no
\* entry for its key performs exactly one upstream call; when that call
\* succeeds the call returns the normalized payload with cached = false and no
\* stale flag, and the cache then holds that payload with the store time.
C3_FirstCallFetchesOnce ==
    (CallEnded /\ ValidArgs(last) /\ last.seen = "absent") =>
        /\ last.networkCalls = 1
        /\ last.raw # 0 =>
              /\ last.path = "fresh"
              /\ last.resp = [val |-> last.raw, cached |-> FALSE, stale |-> FALSE]
              /\ last.entryAfter = [data |-> last.resp, timestamp |-> last.endTime]

\* C3 amended: the same, for a process whose API key is configured.
C3_FirstCallFetchesOnceWithKey ==
    apiKey => C3_FirstCallFetchesOnce

C3_Witness ==
    /\ apiKey
    /\ ValidArgs(last)
    /\ last.seen = "absent"
    /\ last.path = "fresh"
    /\ last.raw # 0
    /\ last.endTime > 0

\* C4: a call whose fetch fails at the provider while the cache holds no entry
\* for its key ends in failure with the upstream error, and leaves the cache
\* as it was, with no entry for the key.
C4_FailureWithoutEntryPropagates ==
    (CallEnded /\ UpstreamFailed(last) /\ last.entryBefore = NoEntry) =>
        /\ last.path = "raise"
        /\ last.outcome = "upstream_error"
        /\ last.resp = NoData
        /\ ~last.cacheChanged
        /\ last.entryAfter = NoEntry

C4_Witness ==
    /\ last.path = "raise"
    /\ last.kind = "current"
    /\ UpstreamFailed(last)
    /\ last.entryBefore = NoEntry
    /\ cache # EmptyCache

\* C5: a response carries stale = true only if it is the fallback of a call
\* whose own fetch failed and its payload comes from an entry older than
\* CACHE_TTL; a response of the cache-hit path never carries stale = true.
C5_StaleOnlyFromExpiredFallback ==
    (CallEnded /\ last.resp.stale) =>
        /\ last.path = "fallback"
        /\ last.failure # "none"
        /\ AgeAtEnd(last) >= CACHE_TTL

\* C6: the cache changes only through the store after a successful fetch: a
\* call that ends by a hit, a stale fallback, a failure or a refusal leaves
\* the data and the timestamp of every entry unchanged.
C6_OnlyStoreChangesCache ==
    (CallEnded /\ last.path # "fresh") => ~last.cacheChanged

\* C7: a request with a latitude outside [-90, 90] or a longitude outside
\* [-180, 180] fails with a validation error before any cache lookup, store or
\* fetch, on every entry point.
C7_CoordinatesValidatedFirst ==
    /\ \A r \in inflight : CoordsInRange(r.lat, r.lon)
    /\ (CallEnded /\ ~CoordsInRange(last.lat, last.lon)) =>
          /\ last.path = "reject"
          /\ last.outcome = "validation_error"
          /\ last.lookups = 0
          /\ last.fetches = 0
          /\ ~last.cacheChanged

\* C8: a forecast request with days outside [1, 5] fails with a validation
\* error (HTTP 400 on GET /forecast/{lat}/{lon}/{days}) before any cache
\* lookup, store or upstream call, leaving the cache and the calls in flight
\* as they were.
C8_DaysValidatedFirst ==
    /\ \A r \in inflight : r.kind = "forecast" => r.days \in 1..5
    /\ (CallEnded /\ last.kind = "forecast" /\ last.days \notin 1..5) =>
          /\ last.path = "reject"
          /\ last.outcome = "validation_error"
          /\ last.lookups = 0
          /\ last.fetches = 0
          /\ last.networkCalls = 0
          /\ ~last.cacheChanged
          /\ last.entry = "get_forecast_get_days" => last.http = 400

C8_Witness ==
    /\ last.path = "reject"
    /\ last.entry = "get_forecast_get_days"
    /\ last.days = 6
    /\ last.http = 400
    /\ cache # EmptyCache

\* C9: with the API key missing no request is ever sent to the provider, and
\* every call that reaches a fetch attempt ends with the configuration error,
\* never with a stale-cache response.
C9_ConfigErrorIsFatal ==
    ~apiKey =>
        /\ inflight = {}
        /\ (CallEnded /\ last.fetches = 1) =>
              /\ last.networkCalls = 0
              /\ last.failure = "config"
              /\ last.path = "raise"
              /\ last.outcome = "config_error"
              /\ last.resp = NoData

C9_Witness ==
    /\ ~apiKey
    /\ last.fetches = 1
    /\ last.outcome = "config_error"
    /\ last.id > 1

\* C10: the set of keys present in the cache never shrinks: every key ever
\* stored is present, and an entry a call found expired at its lookup is
\* still present while the call awaits its fetch and when it falls back.
C10_EntriesAreKept ==
    /\ DOMAIN stored \subseteq DOMAIN cache
    /\ \A r \in inflight : r.seen = "expired" => r.key \in DOMAIN cache
    /\ (CallEnded /\ last.seen = "expired") =>
          /\ last.entryBefore # NoEntry
          /\ last.entryAfter # NoEntry

C10_Witness ==
    /\ last.seen = "expired"
    /\ last.path = "fallback"
    /\ Cardinality(DOMAIN cache) >= 2

\* C11: calls for one key are not merged.  A call that starts while its key
\* has no fresh entry sends its own request to the provider, whatever other
\* calls are in flight; when the answer comes it stores its own payload under
\* the key with the time of the store, over whatever another call stored
\* meanwhile; and the cache has no more entries than keys were stored.
C11_NoSingleFlight ==
    /\ Cardinality(DOMAIN cache) <= Cardinality(DOMAIN stored)
    /\ (CallEnded /\ last.seen \in {"absent", "expired"} /\ apiKey)
        => last.networkCalls = 1
    /\ (CallEnded /\ last.path = "fresh")
        => /\ last.resp.val = last.raw
           /\ last.entryAfter = [data |-> last.resp, timestamp |-> last.endTime]

\* two calls for one key both missed and both fetched; the second to be
\* answered replaces what the first stored, and the cache has one entry
C11_Witness ==
    /\ last.path = "fresh"
    /\ last.seen = "absent"
    /\ last.entryBefore # NoEntry
    /\ last.entryBefore.data.val # last.raw
    /\ last.entryAfter.data.val = last.raw
    /\ Cardinality(DOMAIN cache) = 1

\* the arguments that select a cache slot: latitude, longitude, current or
\* forecast, and the day count of a forecast
SlotArgs(l) == <<l.lat, l.lon, l.kind, l.days>>

\* a payload is served: returned from the cache, on a hit or as the fallback
Served(l) == l.path \in {"hit", "fallback"}

\* C12: a served payload is the one stored last under the call's key, and it
\* was stored by a call with the same latitude, longitude and variant
\* (current, or forecast with the same day count); and the step in which a
\* call stores leaves the entry of every other key as it was.
C12_SlotsAreDistinct ==
    /\ [](Served(last) =>
            /\ last.storedBefore.by = SlotArgs(last)
            /\ last.resp.val = last.storedBefore.data.val)
    /\ [][last'.path = "fresh" =>
            \A k \in DOMAIN cache :
                k # last'.key => (k \in DOMAIN cache' /\ cache'[k] = cache[k])]_vars

\* a forecast for 3 days is served from the cache: it was stored by a call
\* for the same place and 3 days
C12_Witness ==
    /\ Served(last)
    /\ last.kind = "forecast"
    /\ last.days = 3
    /\ last.storedBefore.by = SlotArgs(last)

\* the ways a call ends: refused for its arguments, cache hit, fresh fetch,
\* stale fallback, failure raised
EndPaths == {"reject", "hit", "fresh", "fallback", "raise"}

\* C13: a call that awaits the provider has sent one request; a call that
\* ends does so once, in one of the terminal outcomes, with at most one
\* request sent, and is not awaiting any more; a call that is over never
\* awaits again; and, when every request to the provider ends, every call
\* that awaits one is eventually over.
C13_EveryCallTerminates ==
    /\ [](\A req \in inflight : req.attempts = 1)
    /\ [](CallEnded =>
            /\ last.path \in EndPaths
            /\ last.networkCalls <= 1
            /\ ~InFlight(last.id))
    /\ [][\A id \in 1..started : ~InFlight(id) => ~InFlight(id)']_vars
    /\ \A id \in 1..MaxCalls : InFlight(id) ~> ~InFlight(id)

\* calls were awaiting the provider together; all of them are over, the last
\* of them after its one request failed
C13_Witness ==
    /\ started >= 2
    /\ inflight = {}
    /\ last.path \in {"fallback", "raise"}
    /\ last.id < started
    /\ last.networkCalls = 1

\* C17: a stale fallback does not renew the entry.  The time of an entry is
\* always the time of the latest store for its key; a fallback leaves it as
\* it was, so an entry that was expired before the fallback is expired after
\* it; a call that finds its key's entry expired is not a hit and attempts a
\* fetch; and a call whose fetch succeeds returns cached = false with no
\* stale flag and puts its payload, with the time of the store, in the
\* entry's place.
C17_FallbackDoesNotRefresh ==
    /\ \A k \in DOMAIN cache : cache[k].timestamp = StoreOf(stored, k).timestamp
    /\ (CallEnded /\ last.path = "fallback")
        => /\ last.entryAfter.timestamp = last.entryBefore.timestamp
           /\ Seen(cache, last.key, now)
                = (IF last.endTime - last.entryBefore.timestamp >= CACHE_TTL
                   THEN "expired" ELSE "fresh")
    /\ (CallEnded /\ last.seen = "expired" /\ apiKey)
        => last.path # "hit" /\ last.fetches = 1 /\ last.networkCalls = 1
    /\ \A req \in inflight : req.seen # "fresh"
    /\ (CallEnded /\ last.path = "fresh")
        => /\ last.resp = [val |-> last.raw, cached |-> FALSE, stale |-> FALSE]
           /\ last.entryAfter = [data |-> last.resp, timestamp |-> last.endTime]

\* after a stale fallback marked the expired entry, a later call found it
\* expired still, fetched, and its answer replaced the entry
C17_Witness ==
    /\ last.path = "fresh"
    /\ last.seen = "expired"
    /\ last.entryBefore.data.stale
    /\ last.endTime - last.entryBefore.timestamp >= CACHE_TTL
    /\ ~last.resp.cached /\ ~last.resp.stale
    /\ last.entryAfter.timestamp = last.endTime
    /\ ~last.entryAfter.data.stale

\* C18: the entry of a key holds what the store that completed last put
\* there, the payload's values and the time of that store, whichever call
\* started last: a call that gets its answer and stores puts its own payload
\* and the time of its store in the entry, also when a call that started
\* after it has stored before it.  (The two flags of the payload are left
\* out: see C6.)
C18_LastCompletedStoreWins ==
    /\ \A k \in DOMAIN cache :
        /\ k \in DOMAIN stored
        /\ cache[k].data.val = stored[k].data.val
        /\ cache[k].timestamp = stored[k].timestamp
    /\ (CallEnded /\ last.path = "fresh")
        => /\ last.entryAfter.data.val = last.raw
           /\ last.entryAfter.timestamp = last.endTime
           /\ stored[last.key].by = SlotArgs(last)
           /\ stored[last.key].timestamp = last.endTime

\* the call that started first gets its answer after a call that started
\* later has stored another payload at an earlier time, and replaces it
C18_Witness ==
    /\ last.path = "fresh"
    /\ last.id = 1
    /\ last.seen = "absent"
    /\ last.entryBefore # NoEntry
    /\ last.entryBefore.timestamp < last.endTime
    /\ last.entryBefore.data.val # last.raw
    /\ cache[last.key].data.val = last.raw
    /\ cache[last.key].timestamp = last.endTime

----------------------------------------------------------------------------
(* Properties of the normalizers *)

ForecastRan == norm_out.fn = "forecast"

CurrentRan == norm_out.fn = "current"

\* the items are in the order of time
Chronological(list) ==
    \A i, j \in 1..Len(list) : i < j => list[i].dt <= list[j].dt

\* the places of the first n items, and of those among them of one date
FirstPlaces(list, n) == 1..Min2(Len(list), n)

PlacesOf(list, n, date) == {j \in FirstPlaces(list, n) : DateOf(list[j].dt) = date}

DatesAmong(list, n) == {DateOf(list[j].dt) : j \in FirstPlaces(list, n)}

\* the k earliest of a set of dates
Earliest(dates, k) == {d \in dates : Cardinality({e \in dates : e < d}) < k}

\* 40 items on 5 dates, 8 on each
FortyOnFive(list) ==
    /\ Len(list) = 40
    /\ Cardinality(DatesAmong(list, 40)) = 5
    /\ \A d \in DatesAmong(list, 40) : Cardinality(PlacesOf(list, 40, d)) = 8

\* C14: for items in the order of time and 1 <= days <= 5, normalize_forecast
\* returns one entry for each of the earliest distinct dates among the first
\* days * 8 items, as many as there are up to `days`, in the order of time,
\* never more than min(days, 5), each with temp_max >= temp_min; from 40
\* items on 5 dates with 8 each and days = 3 it returns the 3 earliest dates.
C14_ForecastDaysSelected ==
    (ForecastRan /\ Chronological(norm_in.data.list)
       /\ norm_in.days >= 1 /\ norm_in.days <= 5) =>
        LET list == norm_in.data.list
            days == norm_in.days
            out == norm_out.result.forecast
            dates == DatesAmong(list, days * 8)
        IN /\ Len(out) = Min2(days, Cardinality(dates))
           /\ {out[i].date : i \in 1..Len(out)} = Earliest(dates, days)
           /\ \A i, j \in 1..Len(out) : i < j => out[i].date < out[j].date
           /\ Len(out) <= Min2(days, 5)
           /\ \A i \in 1..Len(out) : out[i].temp_max >= out[i].temp_min
           /\ (FortyOnFive(list) /\ days = 3) =>
                /\ Len(out) = 3
                /\ {out[i].date : i \in 1..3} = Earliest(DatesAmong(list, 40), 3)

\* 40 items on 5 dates, 8 on each, were normalized for 3 days
C14_Witness ==
    /\ ForecastRan
    /\ Chronological(norm_in.data.list)
    /\ FortyOnFive(norm_in.data.list)
    /\ norm_in.days = 3
    /\ Len(norm_out.result.forecast) = 3

RECURSIVE SumOver(_, _)
SumOver(f, places) ==
    IF places = {} THEN 0
    ELSE LET j == CHOOSE j \in places : TRUE
         IN f[j] + SumOver(f, places \ {j})

\* the 3-hour precipitation of each item, 0 for an item that has none
Rain3h(list) ==
    [j \in 1..Len(list) |->
        IF "rain" \in list[j].keys /\ "3h" \in DOMAIN list[j].rain
        THEN list[j].rain["3h"]
        ELSE 0]

Humidities(list) == [j \in 1..Len(list) |-> list[j].main.humidity]

\* C15: each returned entry is computed from the items of its date among the
\* first days * 8: temp_min and temp_max are the least and the greatest of
\* their temperatures, humidity is the average of their humidities cut to a
\* whole number, rainfall is the sum of their 3-hour amounts with 0 for an
\* item that has none (not negative when no amount is), description is the
\* text of the first of them that has a weather condition, "unknown" when
\* none has.
C15_DayAggregates ==
    ForecastRan =>
        LET list == norm_in.data.list
            out == norm_out.result.forecast
        IN \A i \in 1..Len(out) :
            LET places == PlacesOf(list, norm_in.days * 8, out[i].date)
                n == Cardinality(places)
                withText == {j \in places : list[j].weather # <<>>}
                hsum == SumOver(Humidities(list), places)
            IN /\ n > 0
               /\ \E j \in places : list[j].main.temp = out[i].temp_min
               /\ \A j \in places : list[j].main.temp >= out[i].temp_min
               /\ \E j \in places : list[j].main.temp = out[i].temp_max
               /\ \A j \in places : list[j].main.temp <= out[i].temp_max
               /\ out[i].humidity * n <= hsum
               /\ hsum < (out[i].humidity + 1) * n
               /\ out[i].rainfall = SumOver(Rain3h(list), places)
               /\ (\A j \in places : Rain3h(list)[j] >= 0) => out[i].rainfall >= 0
               /\ out[i].description =
                    IF withText = {} THEN "unknown"
                    ELSE list[CHOOSE j \in withText : \A k \in withText : j <= k].weather[1]

\* a returned day whose first item has no weather condition while a later one
\* has, whose humidities do not average to a whole number, with an item
\* without "rain" and an item with a 3-hour amount
C15_Witness ==
    /\ ForecastRan
    /\ \E i \in 1..Len(norm_out.result.forecast) :
        LET list == norm_in.data.list
            day == norm_out.result.forecast[i]
            places == PlacesOf(list, norm_in.days * 8, day.date)
            first == CHOOSE j \in places : \A k \in places : j <= k
        IN /\ list[first].weather = <<>>
           /\ day.description # "unknown"
           /\ SumOver(Humidities(list), places) % Cardinality(places) # 0
           /\ \E j \in places : "rain" \notin list[j].keys
           /\ day.rainfall > 0
           /\ day.temp_min < day.temp_max

\* the data is an answer of the provider, not a normalized payload
RawAnswer(data) == ~("provider" \in data.keys /\ data.provider = "openweather")

HasRain(data, k) == "rain" \in data.keys /\ k \in DOMAIN data.rain

\* equality of the quotients a[1] / a[2] and b[1] / b[2]
SameQuotient(a, b) == a[1] * b[2] = b[1] * a[2]

\* C16: from an answer of the provider, normalize_current_weather takes as
\* rainfall the 1-hour amount when there is one, whether or not there is a
\* 3-hour amount; else a third of the 3-hour amount when there is one (3 over
\* three hours gives 1); else 0.
C16_CurrentRainfall ==
    (CurrentRan /\ RawAnswer(norm_in.data)) =>
        LET data == norm_in.data
            r == norm_out.result.rainfall
        IN /\ HasRain(data, "1h") => SameQuotient(r, <<data.rain["1h"], 1>>)
           /\ (~HasRain(data, "1h") /\ HasRain(data, "3h")) =>
                /\ r[1] * 3 = data.rain["3h"] * r[2]
                /\ data.rain["3h"] = 3 => SameQuotient(r, <<1, 1>>)
           /\ (~HasRain(data, "1h") /\ ~HasRain(data, "3h")) => SameQuotient(r, <<0, 1>>)

\* an answer with 3 over three hours and no 1-hour amount was normalized to 1
C16_Witness ==
    /\ CurrentRan
    /\ RawAnswer(norm_in.data)
    /\ ~HasRain(norm_in.data, "1h")
    /\ HasRain(norm_in.data, "3h")
    /\ norm_in.data.rain["3h"] = 3
    /\ SameQuotient(norm_out.result.rainfall, <<1, 1>>)

\* no date has more than 8 items
AtMostEightADay(list) ==
    \A d \in DatesAmong(list, Len(list)) :
        Cardinality(PlacesOf(list, Len(list), d)) <= 8

\* C19: for items in the order of time of which no date has more than 8,
\* every returned entry is computed from all the items the answer has for
\* its date: the cut to the first days * 8 items takes no item of a returned
\* date away, and the entry is the one the whole answer gives for that date.
C19_ReturnedDaysAreComplete ==
    (ForecastRan /\ Chronological(norm_in.data.list)
       /\ AtMostEightADay(norm_in.data.list)) =>
        LET list == norm_in.data.list
            out == norm_out.result.forecast
            whole == daily_data(list)
        IN \A i \in 1..Len(out) :
            /\ PlacesOf(list, norm_in.days * 8, out[i].date)
                 = PlacesOf(list, Len(list), out[i].date)
            /\ DayIndex(whole, out[i].date) # 0
            /\ out[i] = ForecastDay(whole[DayIndex(whole, out[i].date)])

\* an answer that starts in the middle of a day and is longer than the cut:
\* the cut ends inside a date, that date is not returned, and the returned
\* dates have all their items within the cut
C19_Witness ==
    /\ ForecastRan
    /\ Chronological(norm_in.data.list)
    /\ AtMostEightADay(norm_in.data.list)
    /\ Len(norm_in.data.list) > norm_in.days * 8
    /\ Len(norm_out.result.forecast) = norm_in.days
    /\ \E d \in DatesAmong(norm_in.data.list, norm_in.days * 8) :
        /\ \A i \in 1..Len(norm_out.result.forecast) :
              norm_out.result.forecast[i].date # d
        /\ PlacesOf(norm_in.data.list, norm_in.days * 8, d)
             # PlacesOf(norm_in.data.list, Len(norm_in.data.list), d)

====
